---- MODULE Spec2Model ----
(***************************************************************************)
(* Model of src/src/memory_agent/tools.py: the two agent tools             *)
(* upsert_memory and search_memories, and the namespaced store they        *)
(* delegate to (store.aput / store.asearch).                               *)
(*                                                                         *)
(* Each handler has one suspension point (the await on the store), so a    *)
(* handler call is two steps: the code up to the await (the request is     *)
(* issued), and the store's answer together with the code after the await. *)
(* Any number of calls may be suspended at once.                           *)
(***************************************************************************)
EXTENDS Integers, Sequences, FiniteSets, TLC

VARIABLES store, calls

vars == <<store, calls>>

\* ---------------------------------------------------------------- bounds

\* Handler calls made in one behaviour.
MaxCalls == 2

\* ------------------------------------------------------------ input sets

\* An optional value (Python's X | None) is the empty set or a singleton.
None == {}

Some(x) == {x}

Get(o) == CHOOSE x \in o : TRUE

Users == {"u1", "u2"}

\* The uuid.UUID values: two name the stored memories, one is left for
\* uuid4 to draw.
UUIDs == {1, 2, 3}

\* What datetime.now() may read, in microseconds past some instant: two
\* readings can be equal, increasing or decreasing.
Times == {0, 1}

\* The model-facing arguments of upsert_memory.  The first omits importance
\* and tags (their defaults, None); the second supplies both, importance
\* being the falsy 0 and the tags not in alphabetical order.
UpsertArgs ==
    { [content |-> "likes tea",    context |-> "chat",       importance |-> None,    tags |-> None],
      [content |-> "likes coffee", context |-> "correction", importance |-> Some(0), tags |-> Some(<<"b", "a">>)] }

Queries == {None, Some(""), Some("tea")}

Limits == {1, 2}

\* -------------------------------------------------------- pure functions

HexDigits == <<"0", "1", "2", "3", "4", "5", "6", "7", "8", "9", "a", "b", "c", "d", "e", "f">>

\* str(mem_id): the hexadecimal digits of the identifier, most significant
\* first (two digits here instead of thirty-two).
Str(u) == HexDigits[((u \div 16) % 16) + 1] \o HexDigits[(u % 16) + 1]

\* The decimal digits of n, zero-padded on the left to w digits.
RECURSIVE Pad(_, _)
Pad(n, w) == IF w = 0 THEN "" ELSE Pad(n \div 10, w - 1) \o ToString(n % 10)

\* Mutant of IsoFormat: isoformat(timespec="seconds").
IsoFormatSeconds(t) == "2024-01-01T00:00:" \o Pad((t \div 1000000) % 60, 2)

\* datetime.isoformat() of the instant t microseconds into some minute:
\* the microseconds are left out when they are 0.
IsoFormat(t) ==
    "2024-01-01T00:00:" \o Pad((t \div 1000000) % 60, 2)
        \o (IF t % 1000000 = 0 THEN "" ELSE "." \o Pad(t % 1000000, 6))

\* Mutant of Namespace: the user left out of the path.
NamespaceShared(user_id) == <<"memories">>

\* ("memories", user_id)
Namespace(user_id) == <<"memories", user_id>>

\* Mutant of ResolveId: the argument ignored, a new identifier every time.
ResolveIdIgnoresArg(memory_id, generated) == generated

\* Mutant of ResolveId: the default drawn once, when the function is defined.
ResolveIdDefaultOnce(memory_id, generated) == IF memory_id = None THEN 1 ELSE Get(memory_id)

\* memory_id or uuid.uuid4(): a uuid.UUID is always truthy, so only None
\* is replaced by the generated identifier.
ResolveId(memory_id, generated) == IF memory_id = None THEN generated ELSE Get(memory_id)

\* Mutant of NormTags: list(set(tags)), here in the reverse order.
NormTagsAsSet(tags) ==
    IF tags = None THEN <<>>
    ELSE [k \in 1..Len(Get(tags)) |-> Get(tags)[Len(Get(tags)) + 1 - k]]

\* tags or []
NormTags(tags) == IF tags = None \/ tags = Some(<<>>) THEN <<>> ELSE Get(tags)

\* The value handed to store.aput.
Payload(content, context, importance, tags, timestamp) ==
    [content    |-> content,
     context    |-> context,
     importance |-> importance,
     tags       |-> NormTags(tags),
     timestamp  |-> timestamp]

\* Mutant of NormQuery: str(query).
NormQueryStr(query) == IF query = None THEN "None" ELSE Get(query)

\* query or ""
NormQuery(query) == IF query = None \/ query = Some("") THEN "" ELSE Get(query)

\* ------------------------------------------------------------- the store

\* The store is a set of items [ns, key, value].
Item(ns, key, value) == [ns |-> ns, key |-> key, value |-> value]

InNamespace(st, ns) == {it \in st : it.ns = ns}

\* store.aput(ns, key, value): one atomic step that replaces whatever is
\* stored at (ns, key).
StorePut(st, ns, key, value) ==
    {it \in st : ~(it.ns = ns /\ it.key = key)} \cup {Item(ns, key, value)}

\* The sequences without repetition of elements of S, of length at most n.
RECURSIVE Arrangements(_, _)
Arrangements(S, n) ==
    IF n <= 0 \/ S = {}
    THEN {<<>>}
    ELSE {<<>>} \cup UNION {{<<x>> \o rest : rest \in Arrangements(S \ {x}, n - 1)} : x \in S}

\* The smaller of two numbers.
Min(m, n) == IF m <= n THEN m ELSE n

\* store.asearch(ns, query, limit): some ranking of at most limit items of
\* the namespace.  A search with no query text filters nothing, returns
\* limit items if there are that many, and carries no score; a search with
\* a query text returns whichever items the store finds to match.
StoreSearch(st, ns, query, limit) ==
    { [i \in 1..Len(a) |->
         [key |-> a[i].key, value |-> a[i].value,
          score |-> IF query = "" THEN None ELSE Some(Len(a) - i)]] :
      a \in {x \in Arrangements(InNamespace(st, ns), limit) :
                query = "" => Len(x) = Min(limit, Cardinality(InNamespace(st, ns)))} }

\* ------------------------------------------------------------- rendering

\* Python's repr of a str (none of the strings here holds a quote).
ReprStr(s) == "'" \o s \o "'"

RECURSIVE ReprItems(_)
ReprItems(xs) ==
    IF xs = <<>> THEN ""
    ELSE ReprStr(Head(xs)) \o (IF Len(xs) = 1 THEN "" ELSE ", " \o ReprItems(Tail(xs)))

\* Python's repr of a list of str.
ReprList(xs) == "[" \o ReprItems(xs) \o "]"

\* Python's str of an int | None.
ReprOpt(o) == IF o = None THEN "None" ELSE ToString(Get(o))

\* Python's str of the stored mapping.
ReprValue(v) ==
    "{'content': " \o ReprStr(v.content) \o ", 'context': " \o ReprStr(v.context)
        \o ", 'importance': " \o ReprOpt(v.importance)
        \o ", 'tags': " \o ReprList(v.tags)
        \o ", 'timestamp': " \o ReprStr(v.timestamp) \o "}"

\* getattr(r, name, default) for the two optional attributes of a result.
GetValue(r) == IF "value" \in DOMAIN r THEN ReprValue(r.value) ELSE "{}"

GetScore(r) == IF "score" \in DOMAIN r THEN ReprOpt(r.score) ELSE "None"

\* A text is the sequence of the pieces it is put together from.
\* f"{r.key}: {getattr(r, 'value', {})} (score={getattr(r, 'score', None)})"
FormatLine(r) == <<r.key, ": ", GetValue(r), " (score=", GetScore(r), ")">>

\* formatted = [... for r in results]
Formatted(results) == [i \in 1..Len(results) |-> FormatLine(results[i])]

\* "\n".join(lines)
RECURSIVE Join(_)
Join(lines) ==
    IF lines = <<>> THEN <<>>
    ELSE IF Len(lines) = 1 THEN lines[1]
    ELSE lines[1] \o <<"\n">> \o Join(Tail(lines))

\* Mutant of Summary: the fallback left out.
SummaryNoFallback(formatted) == Join(formatted)

\* "\n".join(formatted) if formatted else "No memories found"
Summary(formatted) == IF formatted # <<>> THEN Join(formatted) ELSE <<"No memories found">>

\* f"Stored memory {mem_id}"
Confirmation(mem_id) == <<"Stored memory ", Str(mem_id)>>

\* ------------------------------------------------------ the two handlers

\* calls[p] is the p-th handler call of the behaviour:
\*   op      "upsert" or "search"
\*   user    the injected user_id
\*   args    the model-facing arguments of the call
\*   t       the wall clock as upsert_memory read it (search: None)
\*   sent    the requests the call has made of the store, in order
\*   pc      "await" (suspended on the store), "returned" or "raised"
\*   got     what the store answered: None while suspended, else "ok" or "error"
\*   results the results store.asearch returned (else <<>>)
\*   result  the text the call returned to its caller, if it returned
\*   prior   the upserts of the same user and key that had already returned
\*           when this upsert began
Returned(user_id, mem_id) ==
    {p \in 1..Len(calls) :
        /\ calls[p].op = "upsert" /\ calls[p].pc = "returned"
        /\ calls[p].user = user_id /\ calls[p].mem_id = mem_id}

Suspended(op) == {p \in 1..Len(calls) : calls[p].pc = "await" /\ calls[p].op = op}

\* The identifiers seen so far, as a key of the store or in a call;
\* uuid.uuid4() yields one that is not among them.
Known ==
    {u \in UUIDs : \E it \in store : it.key = Str(u)}
        \cup {calls[p].mem_id : p \in {q \in 1..Len(calls) : calls[q].op = "upsert"}}

Uuid4 == UUIDs \ Known

\* The identifiers of the memories stored for a user: what a caller passes
\* as memory_id ("ONLY PROVIDE IF UPDATING AN EXISTING MEMORY").
Existing(user_id) ==
    {u \in UUIDs : \E it \in InNamespace(store, Namespace(user_id)) : it.key = Str(u)}

\* The request of lines 38-48.
PutRequest(user_id, mem_id, value) ==
    [ns |-> Namespace(user_id), key |-> Str(mem_id), value |-> value]

\* The request of line 68.
SearchRequest(user_id, q, limit) ==
    [ns |-> Namespace(user_id), query |-> q, limit |-> limit]

\* upsert_memory up to its await (lines 36-48).
UpsertBegin(c, memory_id, generated, user_id, clock) ==
    LET mem_id    == ResolveId(memory_id, generated)
        timestamp == IsoFormat(clock)
        value     == Payload(c.content, c.context, c.importance, c.tags, timestamp)
    IN  [op |-> "upsert", user |-> user_id,
         args |-> [content |-> c.content, context |-> c.context,
                   importance |-> c.importance, tags |-> c.tags,
                   memory_id |-> memory_id],
         mem_id |-> mem_id, t |-> Some(clock),
         sent |-> <<PutRequest(user_id, mem_id, value)>>,
         pc |-> "await", got |-> None, results |-> <<>>, result |-> None,
         prior |-> Returned(user_id, mem_id)]

\* Mutant of UpsertEnd: the failure swallowed.
UpsertEndSwallows(c, answer) ==
    [c EXCEPT !.pc = "returned", !.got = Some(answer),
              !.result = Some(Confirmation(c.mem_id))]

\* upsert_memory after its await (line 49); a failure of aput is not caught.
UpsertEnd(c, answer) ==
    IF answer = "ok"
    THEN [c EXCEPT !.pc = "returned", !.got = Some(answer),
                   !.result = Some(Confirmation(c.mem_id))]
    ELSE [c EXCEPT !.pc = "raised", !.got = Some(answer)]

\* search_memories up to its await (lines 67-68).
SearchBegin(query, limit, user_id) ==
    [op |-> "search", user |-> user_id,
     args |-> [query |-> query, limit |-> limit],
     mem_id |-> 0, t |-> None,
     sent |-> <<SearchRequest(user_id, NormQuery(query), limit)>>,
     pc |-> "await", got |-> None, results |-> <<>>, result |-> None,
     prior |-> {}]

\* search_memories after its await (lines 70-74); a failure of asearch is
\* not caught.
SearchEnd(c, answer, results) ==
    IF answer = "ok"
    THEN [c EXCEPT !.pc = "returned", !.got = Some(answer), !.results = results,
                   !.result = Some(Summary(Formatted(results)))]
    ELSE [c EXCEPT !.pc = "raised", !.got = Some(answer)]

\* ---------------------------------------------------------------- actions

\* What earlier runs of the program have left in the store: two memories
\* of u1 and one of u2 (under a key u1 uses too).
Seeded ==
    LET a == CHOOSE c \in UpsertArgs : c.tags = None
        b == CHOOSE c \in UpsertArgs : c.importance = Some(0)
        v(c) == Payload(c.content, c.context, c.importance, c.tags, IsoFormat(0))
    IN  StorePut(StorePut(StorePut({}, Namespace("u1"), Str(1), v(a)),
                          Namespace("u1"), Str(2), v(b)),
                 Namespace("u2"), Str(1), v(b))

Init ==
    /\ store = Seeded
    /\ calls = <<>>

\* A caller invokes upsert_memory without memory_id: uuid4 is drawn.  The
\* wall clock it reads is whatever the host's clock says: it may repeat a
\* value or run backwards between two reads.
UpsertCreate ==
    /\ Len(calls) < MaxCalls
    /\ \E c \in UpsertArgs, user_id \in Users, generated \in Uuid4, clock \in Times :
         calls' = Append(calls, UpsertBegin(c, None, generated, user_id, clock))
    /\ UNCHANGED store

\* A caller invokes upsert_memory with the memory_id of a stored memory:
\* uuid4 is not evaluated (0 stands for the value never drawn).
UpsertUpdate ==
    /\ Len(calls) < MaxCalls
    /\ \E c \in UpsertArgs, user_id \in Users, clock \in Times :
         \E u \in Existing(user_id) :
             calls' = Append(calls, UpsertBegin(c, Some(u), 0, user_id, clock))
    /\ UNCHANGED store

\* Mutant of PutReturns: read, merge, write; the stored context is kept.
PutReturnsMerging ==
    \E p \in Suspended("upsert") :
        LET req == calls[p].sent[Len(calls[p].sent)]
            old == {it \in store : it.ns = req.ns /\ it.key = req.key}
            new == IF old = {} THEN req.value
                   ELSE [req.value EXCEPT !.context = (CHOOSE it \in old : TRUE).value.context]
        IN  /\ store' = StorePut(store, req.ns, req.key, new)
            /\ calls' = [calls EXCEPT ![p] = UpsertEnd(calls[p], "ok")]

\* The store performs the put and upsert_memory resumes.
PutReturns ==
    \E p \in Suspended("upsert") :
        LET req == calls[p].sent[Len(calls[p].sent)]
        IN  /\ store' = StorePut(store, req.ns, req.key, req.value)
            /\ calls' = [calls EXCEPT ![p] = UpsertEnd(calls[p], "ok")]

\* The put fails: nothing is stored and the failure reaches upsert_memory.
PutRaises ==
    \E p \in Suspended("upsert") :
        /\ calls' = [calls EXCEPT ![p] = UpsertEnd(calls[p], "error")]
        /\ UNCHANGED store

\* A caller invokes search_memories.
SearchCall ==
    /\ Len(calls) < MaxCalls
    /\ \E query \in Queries, limit \in Limits, user_id \in Users :
         calls' = Append(calls, SearchBegin(query, limit, user_id))
    /\ UNCHANGED store

\* Mutant of SearchReturns: the records returned are taken out of the store.
SearchReturnsConsuming ==
    \E p \in Suspended("search") :
        LET req == calls[p].sent[Len(calls[p].sent)]
        IN  \E results \in StoreSearch(store, req.ns, req.query, req.limit) :
                /\ calls' = [calls EXCEPT ![p] = SearchEnd(calls[p], "ok", results)]
                /\ store' = {it \in store :
                                ~(it.ns = req.ns /\ \E k \in 1..Len(results) : results[k].key = it.key)}

\* The store answers the search and search_memories resumes.
SearchReturns ==
    \E p \in Suspended("search") :
        LET req == calls[p].sent[Len(calls[p].sent)]
        IN  \E results \in StoreSearch(store, req.ns, req.query, req.limit) :
                /\ calls' = [calls EXCEPT ![p] = SearchEnd(calls[p], "ok", results)]
                /\ UNCHANGED store

\* The search fails and the failure reaches search_memories.
SearchRaises ==
    \E p \in Suspended("search") :
        /\ calls' = [calls EXCEPT ![p] = SearchEnd(calls[p], "error", <<>>)]
        /\ UNCHANGED store

Next ==
    \/ UpsertCreate
    \/ UpsertUpdate
    \/ PutReturns
    \/ PutRaises
    \/ SearchCall
    \/ SearchReturns
    \/ SearchRaises

Spec == Init /\ [][Next]_vars

\* ----------------------------------------------------------------- claims

\* The records of user u, by the namespace the specification names.
RecordsOf(st, u) == {it \in st : it.ns = <<"memories", u>>}

\* The record the arguments and the clock reading of call c describe.
ValueOf(c) ==
    [content    |-> c.args.content,
     context    |-> c.args.context,
     importance |-> c.args.importance,
     tags       |-> IF c.args.tags = None THEN <<>> ELSE Get(c.args.tags),
     timestamp  |-> IsoFormat(Get(c.t))]

\* This step is the return of upsert call p.
UpsertReturnsIn(p) ==
    /\ calls[p].op = "upsert"
    /\ calls[p].pc = "await"
    /\ calls'[p].pc = "returned"

\* This step is the beginning or the end of a call of search_memories.
SearchStep ==
    \/ Len(calls') = Len(calls) + 1 /\ calls'[Len(calls')].op = "search"
    \/ \E p \in 1..Len(calls) : calls[p].op = "search" /\ calls'[p] # calls[p]

\* C1: an upsert with the memory_id of a stored record leaves the user's
\* namespace with as many records as before, and the record at that
\* identifier holds the content, context, importance, tags and timestamp of
\* this call, an omitted importance or tags being None and the empty list.
C1_UpdateReplaces ==
    [][\A p \in 1..Len(calls) :
         LET c == calls[p]
             i == Str(Get(c.args.memory_id))
         IN  (/\ UpsertReturnsIn(p)
              /\ c.args.memory_id # None
              /\ \E it \in RecordsOf(store, c.user) : it.key = i)
             => /\ Cardinality(RecordsOf(store', c.user)) = Cardinality(RecordsOf(store, c.user))
                /\ \E it \in RecordsOf(store', c.user) : it.key = i
                /\ \A it \in RecordsOf(store', c.user) : it.key = i => it.value = ValueOf(c)
                /\ \A it \in RecordsOf(store, c.user) : it.key # i => it \in store']_vars

\* u1 has updated its second seeded memory (importance 0, tags b, a) with a
\* call that omits importance and tags: two records, the defaults stored.
C1_Witness ==
    /\ Len(calls) = 1
    /\ calls[1].op = "upsert" /\ calls[1].pc = "returned" /\ calls[1].user = "u1"
    /\ calls[1].args.memory_id = Some(2) /\ calls[1].args.tags = None
    /\ Cardinality(RecordsOf(store, "u1")) = 2
    /\ \E it \in RecordsOf(store, "u1") :
         it.key = Str(2) /\ it.value.tags = <<>> /\ it.value.importance = None

\* C2: an upsert without memory_id writes under an identifier that was no
\* key of the user's namespace: the namespace gains exactly one record and
\* every record stored before is unchanged.
C2_CreateIsFresh ==
    [][\A p \in 1..Len(calls) :
         LET c == calls[p]
         IN  (UpsertReturnsIn(p) /\ c.args.memory_id = None)
             => /\ store \subseteq store'
                /\ Cardinality(store' \ store) = 1
                /\ \A it \in store' \ store :
                     /\ it.ns = <<"memories", c.user>>
                     /\ ~ \E old \in RecordsOf(store, c.user) : old.key = it.key
                /\ Cardinality(RecordsOf(store', c.user))
                     = Cardinality(RecordsOf(store, c.user)) + 1]_vars

\* u1, with two memories stored, has created a third after an update of
\* the first.
C2_Witness ==
    /\ Len(calls) = 2
    /\ \A p \in 1..2 : calls[p].op = "upsert" /\ calls[p].pc = "returned" /\ calls[p].user = "u1"
    /\ calls[1].args.memory_id = Some(1)
    /\ calls[2].args.memory_id = None
    /\ Cardinality(RecordsOf(store, "u1")) = 3

\* C3: a call made for a user names only that user's namespace in its
\* requests, leaves the records of every other user as they were, and a
\* search returns only records of the caller's own namespace.
C3_Isolation ==
    [][\A p \in 1..Len(calls') :
         (p > Len(calls) \/ calls'[p] # calls[p])
         => LET c == calls'[p]
            IN  /\ \A k \in 1..Len(c.sent) : c.sent[k].ns = <<"memories", c.user>>
                /\ \A v \in Users \ {c.user} : RecordsOf(store', v) = RecordsOf(store, v)
                /\ \A k \in 1..Len(c.results) :
                     \E it \in RecordsOf(store, c.user) :
                         it.key = c.results[k].key /\ it.value = c.results[k].value]_vars

\* u1 has overwritten the memory it keeps under the key u2 uses too, and
\* u2's search still returns u2's record.
C3_Witness ==
    /\ Len(calls) = 2
    /\ calls[1].op = "upsert" /\ calls[1].user = "u1" /\ calls[1].pc = "returned"
    /\ calls[1].args.memory_id = Some(1) /\ calls[1].args.content = "likes tea"
    /\ calls[2].op = "search" /\ calls[2].user = "u2" /\ calls[2].pc = "returned"
    /\ Len(calls[2].results) = 1
    /\ calls[2].results[1].key = Str(1)
    /\ calls[2].results[1].value.content = "likes coffee"

\* C4: every call makes exactly one request of the store; when the store
\* fails the call fails too and returns no text, and a call that returns
\* was answered by the store.
C4_FailurePropagates ==
    \A p \in 1..Len(calls) :
        LET c == calls[p]
        IN  /\ Len(c.sent) = 1
            /\ c.got = Some("error") => c.pc = "raised" /\ c.result = None
            /\ c.pc = "returned" => c.got = Some("ok") /\ c.result # None
            /\ c.pc = "raised" => c.got = Some("error")

\* A put and a search have both failed.
C4_Witness ==
    /\ Len(calls) = 2
    /\ calls[1].op = "upsert" /\ calls[1].pc = "raised"
    /\ calls[2].op = "search" /\ calls[2].pc = "raised"

\* C5: no step of search_memories, whether it begins, returns results,
\* returns "No memories found" or fails, changes the store.
C5_SearchReadOnly == [][SearchStep => store' = store]_vars

\* Searches have returned results, returned "No memories found" on a store
\* that holds records, and failed.
C5_Witness ==
    /\ Len(calls) = 2 /\ store # {}
    /\ calls[1].op = "search" /\ calls[1].pc = "returned" /\ calls[1].results # <<>>
    /\ calls[2].op = "search" /\ calls[2].pc = "raised"

\* C6: every stored record has a sequence for tags: the empty sequence when
\* the call gave no tags (or an empty list), else the tags of the call in
\* the order of the call; the record is otherwise the call's.
C6_TagsNormalised ==
    \A it \in store :
        /\ it.value.tags \in Seq(STRING)
        /\ \E c \in UpsertArgs :
             /\ it.value.content = c.content
             /\ it.value.context = c.context
             /\ it.value.importance = c.importance
             /\ it.value.tags = (IF c.tags = None THEN <<>> ELSE Get(c.tags))

\* A create without tags and an update with the tags b, a have both been
\* stored.
C6_Witness ==
    /\ Len(calls) = 2
    /\ \A p \in 1..2 : calls[p].op = "upsert" /\ calls[p].pc = "returned" /\ calls[p].user = "u2"
    /\ calls[1].args.tags = None /\ calls[1].args.memory_id = None
    /\ calls[2].args.tags = Some(<<"b", "a">>) /\ calls[2].args.memory_id = Some(1)
    /\ \E it \in RecordsOf(store, "u2") : it.value.tags = <<>>
    /\ \E it \in RecordsOf(store, "u2") : it.value.tags = <<"b", "a">>

\* Upsert q began after upsert p had returned, for the same user and key.
Sequential(p, q) ==
    /\ calls[p].op = "upsert" /\ calls[q].op = "upsert"
    /\ calls[p].pc = "returned" /\ p \in calls[q].prior
    /\ calls[p].user = calls[q].user
    /\ calls[p].sent[1].key = calls[q].sent[1].key

\* C7, as claimed: of two sequential upserts of one memory_id the second
\* stores a timestamp different from the first's and not earlier.
C7_AsClaimed ==
    \A p, q \in 1..Len(calls) :
        (Sequential(p, q) /\ calls[q].pc = "returned")
        => /\ calls[q].sent[1].value.timestamp # calls[p].sent[1].value.timestamp
           /\ Get(calls[q].t) >= Get(calls[p].t)

\* C7, amended: when an upsert returns, the record's timestamp is the
\* rendering of the clock as that call read it, and it differs from the
\* timestamp of any earlier sequential upsert of the key that read another
\* clock value.
C7_TimestampRefreshed ==
    [][\A q \in 1..Len(calls) :
         UpsertReturnsIn(q)
         => \A it \in RecordsOf(store', calls[q].user) :
              it.key = calls[q].sent[1].key
              => /\ it.value.timestamp = IsoFormat(Get(calls[q].t))
                 /\ \A p \in 1..Len(calls) :
                      (Sequential(p, q) /\ Get(calls[p].t) # Get(calls[q].t))
                      => it.value.timestamp # calls[p].sent[1].value.timestamp]_vars

\* Two sequential upserts of one key, the clock set back in between: the
\* record carries the second call's, earlier, timestamp.
C7_Witness ==
    /\ Len(calls) = 2
    /\ Sequential(1, 2) /\ calls[2].pc = "returned"
    /\ Get(calls[2].t) < Get(calls[1].t)
    /\ \E it \in RecordsOf(store, calls[2].user) :
         /\ it.key = calls[2].sent[1].key
         /\ it.value.timestamp = IsoFormat(Get(calls[2].t))
         /\ it.value.timestamp # calls[1].sent[1].value.timestamp

\* C8: a search with query None and one with query "" make the same single
\* request: the user's namespace, the empty string, the limit as given.
C8_NoneIsEmptyQuery ==
    \A p \in 1..Len(calls) :
        LET c == calls[p]
        IN  (c.op = "search" /\ c.args.query \in {None, Some("")})
            => c.sent = <<[ns |-> <<"memories", c.user>>, query |-> "", limit |-> c.args.limit]>>

\* One search with None and one with "", same user and limit.
C8_Witness ==
    /\ Len(calls) = 2
    /\ calls[1].op = "search" /\ calls[2].op = "search"
    /\ calls[1].args.query = None /\ calls[2].args.query = Some("")
    /\ calls[1].user = calls[2].user /\ calls[1].args.limit = calls[2].args.limit
    /\ calls[1].sent = calls[2].sent

\* The lines of a text: its pieces between the newline pieces.
RECURSIVE SplitLines(_)
SplitLines(text) ==
    IF \A k \in 1..Len(text) : text[k] # "\n"
    THEN <<text>>
    ELSE LET n == CHOOSE k \in 1..Len(text) :
                    text[k] = "\n" /\ \A j \in 1..(k - 1) : text[j] # "\n"
         IN  <<SubSeq(text, 1, n - 1)>> \o SplitLines(SubSeq(text, n + 1, Len(text)))

\* C9: a search returns "No memories found" exactly when the store returned
\* no result; else its text has one line per result, the k-th line being
\* that of the k-th result.
C9_SummaryFollowsResults ==
    \A p \in 1..Len(calls) :
        LET c == calls[p]
        IN  (c.op = "search" /\ c.pc = "returned")
            => LET text  == Get(c.result)
                   lines == SplitLines(text)
               IN  /\ text = <<"No memories found">> <=> c.results = <<>>
                   /\ c.results # <<>>
                      => /\ Len(lines) = Len(c.results)
                         /\ \A k \in 1..Len(c.results) :
                              /\ lines[k][1] = c.results[k].key
                              /\ lines[k][3] = ReprValue(c.results[k].value)

\* One search returned no result, another the two records of u1, the
\* second key first.
C9_Witness ==
    /\ Len(calls) = 2
    /\ calls[1].op = "search" /\ calls[1].pc = "returned" /\ calls[1].results = <<>>
    /\ calls[2].op = "search" /\ calls[2].pc = "returned" /\ Len(calls[2].results) = 2
    /\ calls[2].results[1].key = Str(2) /\ calls[2].results[2].key = Str(1)
    /\ Len(Get(calls[2].result)) = 13

\* The upserts of user u that supply memory_id i.
Writers(u, i) ==
    {p \in 1..Len(calls) :
        calls[p].op = "upsert" /\ calls[p].user = u /\ calls[p].args.memory_id = Some(i)}

\* C10: once the upserts that supply one memory_id for one user have all
\* ended, and one of them returned, exactly one record is stored under that
\* identifier and it is, field for field, the record of one of them.
C10_OneWholeRecord ==
    \A u \in Users, i \in UUIDs :
        (/\ \A p \in Writers(u, i) : calls[p].pc # "await"
         /\ \E p \in Writers(u, i) : calls[p].pc = "returned")
        => /\ Cardinality({it \in RecordsOf(store, u) : it.key = Str(i)}) = 1
           /\ \A it \in RecordsOf(store, u) :
                it.key = Str(i)
                => \E p \in Writers(u, i) : calls[p].pc = "returned" /\ it.value = ValueOf(calls[p])

\* Two upserts of one memory_id were suspended together; the one that began
\* first was stored last.
C10_Witness ==
    /\ Len(calls) = 2
    /\ Writers("u1", 1) = {1, 2}
    /\ calls[2].prior = {} /\ calls[1].pc = "returned" /\ calls[2].pc = "returned"
    /\ calls[1].args.content # calls[2].args.content
    /\ \E it \in RecordsOf(store, "u1") : it.key = Str(1) /\ it.value = ValueOf(calls[1])

====
